---- MODULE Spec2Model ----
(***************************************************************************)
(* A model of the time-resolution routine of adaptive-clock                *)
(* (src-tauri/src/main.rs): sync_time, fetch_remote_time,                  *)
(* extract_epoch_millis, parse_iso_candidate and value_to_i64.             *)
(*                                                                         *)
(* i64 values are kept at their full width.  TLC's integers are 32 bits    *)
(* wide, so an i64 is a tuple of four 16-bit limbs, least significant      *)
(* first, in two's complement.                                             *)
(***************************************************************************)
EXTENDS Integers, Sequences, FiniteSets, TLC

(***************************************************************************)
(* Option<T>                                                               *)
(***************************************************************************)
None == [some |-> FALSE]
Some(x) == [some |-> TRUE, v |-> x]

(***************************************************************************)
(* i64 arithmetic                                                          *)
(***************************************************************************)
LimbBase == 2^16
HalfLimb == 2^15

U64FromNat(n) == <<n % LimbBase, n \div LimbBase, 0, 0>>

\* a + b modulo 2^64
U64Add(a, b) ==
    LET s1 == a[1] + b[1]
        s2 == a[2] + b[2] + (s1 \div LimbBase)
        s3 == a[3] + b[3] + (s2 \div LimbBase)
        s4 == a[4] + b[4] + (s3 \div LimbBase)
    IN  <<s1 % LimbBase, s2 % LimbBase, s3 % LimbBase, s4 % LimbBase>>

\* a * k as five limbs (the fifth is what does not fit in 64 bits), 0 <= k < 2^15
U64MulWide(a, k) ==
    LET p1 == a[1] * k
        p2 == a[2] * k + (p1 \div LimbBase)
        p3 == a[3] * k + (p2 \div LimbBase)
        p4 == a[4] * k + (p3 \div LimbBase)
    IN  <<p1 % LimbBase, p2 % LimbBase, p3 % LimbBase, p4 % LimbBase, p4 \div LimbBase>>

\* a * k modulo 2^64: the two's complement product of a release build
I64WrappingMul(a, k) == SubSeq(U64MulWide(a, k), 1, 4)

I64Neg(a) ==
    U64Add(<<LimbBase - 1 - a[1], LimbBase - 1 - a[2], LimbBase - 1 - a[3], LimbBase - 1 - a[4]>>,
           <<1, 0, 0, 0>>)

I64IsNeg(a) == a[4] >= HalfLimb

I64Zero == <<0, 0, 0, 0>>
I64Max == <<LimbBase - 1, LimbBase - 1, LimbBase - 1, HalfLimb - 1>>
I64Min == <<0, 0, 0, HalfLimb>>

\* an integer of the model (|n| < 2^31) as an i64
I64FromInt(n) == IF n >= 0 THEN U64FromNat(n) ELSE I64Neg(U64FromNat(0 - n))

\* whether the mathematical product a * k leaves the i64 range
I64MulOverflows(a, k) ==
    LET w == U64MulWide(IF I64IsNeg(a) THEN I64Neg(a) ELSE a, k)
    IN  \/ w[5] > 0
        \/ w[4] > HalfLimb
        \/ w[4] = HalfLimb /\ (~I64IsNeg(a) \/ w[1] + w[2] + w[3] > 0)

\* i32::try_from(i64)
I32TryFrom(a) ==
    IF a[3] = 0 /\ a[4] = 0 /\ a[2] < HalfLimb
    THEN Some(a[1] + a[2] * LimbBase)
    ELSE IF a[3] = LimbBase - 1 /\ a[4] = LimbBase - 1 /\ a[2] >= HalfLimb
         THEN Some(a[1] + (a[2] - LimbBase) * LimbBase)
         ELSE None

\* u32::try_from(i64); the u32 is kept in limbs, as 2^32 - 1 is no integer of TLC
U32TryFrom(a) == IF a[3] = 0 /\ a[4] = 0 THEN Some(a) ELSE None

\* A u32 as an integer of the model for range comparisons: every u32 from 2^31 on
\* compares as 2^31 - 1, which is beyond every calendar and clock range.
U32Value(u) == IF u[2] < HalfLimb THEN u[1] + u[2] * LimbBase ELSE 2^16 * (2^15 - 1) + (2^16 - 1)

(***************************************************************************)
(* f64, as far as the routine uses it.  A finite value is held in tenths   *)
(* (425 is 42.5); "big" is any value beyond the i64 range, infinities      *)
(* included, with its sign in tenths; "nan" is NaN.                        *)
(***************************************************************************)
F64Fin(t) == [cls |-> "fin", tenths |-> t]
F64Big(sign) == [cls |-> "big", tenths |-> sign]
F64NaN == [cls |-> "nan", tenths |-> 0]

\* f64::round: to the nearest integer, halves away from zero
F64Round(f) ==
    IF f.cls = "fin"
    THEN F64Fin(IF f.tenths >= 0 THEN ((f.tenths + 5) \div 10) * 10
                ELSE 0 - (((0 - f.tenths) + 5) \div 10) * 10)
    ELSE f

\* `float as i64`: truncates toward zero, saturates, and sends NaN to 0
F64AsI64(f) ==
    CASE f.cls = "fin" -> I64FromInt(IF f.tenths >= 0 THEN f.tenths \div 10
                                     ELSE 0 - ((0 - f.tenths) \div 10))
      [] f.cls = "big" -> IF f.tenths > 0 THEN I64Max ELSE I64Min
      [] OTHER -> I64Zero

(***************************************************************************)
(* serde_json::Value.  A number is an i64, a u64 above i64::MAX or an f64. *)
(* A string is held by its lexical shape: "numeric" is text that           *)
(* str::parse::<f64> reads as f once surrounding whitespace (pad) is gone; *)
(* "rfc3339" is YYYY-MM-DDTHH:MM:SS[.fff] followed by Z or +HH:MM (off, in *)
(* minutes); "naiveT" and "naiveSp" are the same without an offset, with T *)
(* or a space between date and time; "garbage" is any other text.          *)
(***************************************************************************)
NoFields == [y |-> 0, mo |-> 0, d |-> 0, h |-> 0, mi |-> 0, s |-> 0, ms |-> 0, off |-> 0]

Absent == [t |-> "Absent"]
JNull == [t |-> "Null"]
JBool(b) == [t |-> "Bool", b |-> b]
JObject == [t |-> "Object"]
JInt(n) == [t |-> "Number", kind |-> "i64", i |-> I64FromInt(n), f |-> F64NaN]
JI64(a) == [t |-> "Number", kind |-> "i64", i |-> a, f |-> F64NaN]
JU64Big == [t |-> "Number", kind |-> "u64", i |-> I64Zero, f |-> F64Big(1)]
JFloat(f) == [t |-> "Number", kind |-> "f64", i |-> I64Zero, f |-> f]
JText(shape, pad, f, dt) == [t |-> "String", shape |-> shape, pad |-> pad, f |-> f, dt |-> dt]
JNumStr(f, pad) == JText("numeric", pad, f, NoFields)
JGarbage == JText("garbage", FALSE, F64NaN, NoFields)
JDateStr(shape, dt) == JText(shape, FALSE, F64NaN, dt)

\* Value::get on the payload
Get(payload, key) == IF payload[key].t = "Absent" THEN None ELSE Some(payload[key])

\* Value::as_str
AsStr(value) == IF value.t = "String" THEN Some(value) ELSE None

\* Number::as_i64, Number::as_f64
AsI64(value) == IF value.kind = "i64" THEN Some(value.i) ELSE None
\* (or_else reaches as_f64 only when as_i64 gave None: the f of an i64 number is unused)
AsF64(value) == Some(value.f)

\* str::trim, str::parse::<f64>
StrTrim(text) == [text EXCEPT !.pad = FALSE]
ParseF64(text) == IF text.shape = "numeric" /\ ~text.pad THEN Some(text.f) ELSE None

\* .map(|float| float.round() as i64)
MapRoundToI64(opt) == IF opt.some THEN Some(F64AsI64(F64Round(opt.v))) ELSE None

\* value_to_i64 without the rounding: the cast alone, which truncates
value_to_i64_truncating(value) ==
    CASE value.t = "Number" ->
            IF AsI64(value).some THEN AsI64(value) ELSE Some(F64AsI64(AsF64(value).v))
      [] value.t = "String" ->
            IF ParseF64(StrTrim(value)).some THEN Some(F64AsI64(ParseF64(StrTrim(value)).v)) ELSE None
      [] OTHER -> None

value_to_i64(value) ==
    CASE value.t = "Number" ->
            IF AsI64(value).some THEN AsI64(value) ELSE MapRoundToI64(AsF64(value))
      [] value.t = "String" -> MapRoundToI64(ParseF64(StrTrim(value)))
      [] OTHER -> None

\* .and_then(value_to_i64), .and_then(Value::as_str)
AndThenValueToI64(opt) == IF opt.some THEN value_to_i64(opt.v) ELSE None
AndThenAsStr(opt) == IF opt.some THEN AsStr(opt.v) ELSE None

(***************************************************************************)
(* chrono: the proleptic Gregorian calendar of NaiveDate, NaiveTime with   *)
(* its leap-second representation, and timestamp_millis.                   *)
(***************************************************************************)
\* NaiveDate::MAX and NaiveDate::MIN lie in the years 262142 and -262143
MaxYear == 2^18 - 2
MinYear == 1 - 2^18

IsLeapYear(y) == (y % 4 = 0 /\ y % 100 # 0) \/ y % 400 = 0

DaysInMonth(y, m) ==
    CASE m \in {4, 6, 9, 11} -> 30
      [] m = 2 -> IF IsLeapYear(y) THEN 29 ELSE 28
      [] OTHER -> 31

\* NaiveDate::from_ymd_opt(year: i32, month: u32, day: u32)
from_ymd_opt(year, month, day) ==
    LET m == U32Value(month)
        d == U32Value(day)
    IN  IF /\ MinYear <= year /\ year <= MaxYear
           /\ 1 <= m /\ m <= 12
           /\ 1 <= d /\ d <= DaysInMonth(year, m)
        THEN Some([y |-> year, mo |-> m, d |-> d])
        ELSE None

\* NaiveTime::from_hms_milli_opt(hour, min, sec, milli: u32): milli may run to 1999
\* when sec is 59, which is how chrono holds a leap second
from_hms_milli_opt(hour, min, sec, milli) ==
    LET h == U32Value(hour)
        mi == U32Value(min)
        s == U32Value(sec)
        ms == U32Value(milli)
    IN  IF h >= 24 \/ mi >= 60 \/ s >= 60 \/ (ms >= 1000 /\ s # 59) \/ ms >= 2000
        THEN None
        ELSE Some([h |-> h, mi |-> mi, s |-> s, ms |-> ms])

\* leap years before year y (floor division, so also for y <= 0)
LeapsBefore(y) == ((y - 1) \div 4) - ((y - 1) \div 100) + ((y - 1) \div 400)

RECURSIVE DaysBeforeMonth(_, _)
DaysBeforeMonth(y, m) == IF m <= 1 THEN 0 ELSE DaysBeforeMonth(y, m - 1) + DaysInMonth(y, m - 1)

\* days from 1970-01-01 to the date
DaysFromEpoch(date) ==
    365 * (date.y - 1970) + (LeapsBefore(date.y) - LeapsBefore(1970))
        + DaysBeforeMonth(date.y, date.mo) + (date.d - 1)

\* NaiveDateTime::new(date, time).and_utc().timestamp_millis(), moved by offMin
\* minutes (the offset of a DateTime<FixedOffset>; 0 for and_utc())
timestamp_millis(date, time, offMin) ==
    LET dayMillis == I64WrappingMul(I64WrappingMul(I64WrappingMul(
                         I64FromInt(DaysFromEpoch(date)), 864), 1000), 100)
        inDay == time.h * 3600000 + time.mi * 60000 + time.s * 1000 + time.ms
    IN  U64Add(dayMillis, I64FromInt(inDay - offMin * 60000))

\* what the three parsers share: the fields of a date-time text as an instant
FieldsInstant(dt) ==
    LET date == IF dt.y >= 0 /\ dt.mo >= 0 /\ dt.d >= 0
                THEN from_ymd_opt(dt.y, I64FromInt(dt.mo), I64FromInt(dt.d))
                ELSE None
        time == IF dt.h >= 0 /\ dt.mi >= 0 /\ dt.s >= 0 /\ dt.ms >= 0 /\ dt.ms <= 999
                THEN from_hms_milli_opt(I64FromInt(dt.h), I64FromInt(dt.mi),
                                        I64FromInt(dt.s), I64FromInt(dt.ms))
                ELSE None
    IN  IF date.some /\ time.some THEN Some(timestamp_millis(date.v, time.v, dt.off)) ELSE None

\* chrono::DateTime::parse_from_rfc3339
parse_from_rfc3339(text) == IF text.shape = "rfc3339" THEN FieldsInstant(text.dt) ELSE None

\* NaiveDateTime::parse_from_str(value, format), then and_utc().timestamp_millis()
parse_from_str(text, format) ==
    IF (format = "%Y-%m-%dT%H:%M:%S%.f" /\ text.shape = "naiveT")
       \/ (format = "%Y-%m-%d %H:%M:%S%.f" /\ text.shape = "naiveSp")
    THEN FieldsInstant([text.dt EXCEPT !.off = 0])
    ELSE None

NaiveFormats == <<"%Y-%m-%dT%H:%M:%S%.f", "%Y-%m-%d %H:%M:%S%.f">>

RECURSIVE ParseNaive(_, _)
ParseNaive(text, i) ==
    IF i > Len(NaiveFormats) THEN None
    ELSE IF parse_from_str(text, NaiveFormats[i]).some THEN parse_from_str(text, NaiveFormats[i])
    ELSE ParseNaive(text, i + 1)

parse_iso_candidate(text) ==
    IF parse_from_rfc3339(text).some THEN parse_from_rfc3339(text) ELSE ParseNaive(text, 1)

\* if let Some(candidate) = ... { parse_iso_candidate(candidate) }
AndThenParse(opt) == IF opt.some THEN parse_iso_candidate(opt.v) ELSE None

(***************************************************************************)
(* extract_epoch_millis                                                    *)
(***************************************************************************)
MILLIS_PER_SECOND == 1000

\* the outcome of an arithmetic overflow in a build with overflow checks
Panic == [some |-> FALSE, panic |-> TRUE]
IsPanic(r) == "panic" \in DOMAIN r

\* unix_seconds * MILLIS_PER_SECOND on i64: a build with overflow checks (the
\* debug profile) panics when the product leaves the i64 range, a build without
\* them (the release profile) wraps
SecondsToMillis(unix_seconds, overflow_checks) ==
    IF overflow_checks /\ I64MulOverflows(unix_seconds, MILLIS_PER_SECOND)
    THEN Panic
    ELSE Some(I64WrappingMul(unix_seconds, MILLIS_PER_SECOND))

\* strategy 1: payload.get("unixTime").and_then(value_to_i64)
UnixTimeField(payload) == AndThenValueToI64(Get(payload, "unixTime"))

DateTimeKeys == <<"dateTime", "dateTimeUtc", "currentLocalTime", "currentUtcTime">>

\* the loop stopping at the first key that is present, whether it parses or not
RECURSIVE ProbeFirstPresentKey(_, _)
ProbeFirstPresentKey(payload, i) ==
    IF i > Len(DateTimeKeys) THEN None
    ELSE IF Get(payload, DateTimeKeys[i]).some
         THEN AndThenParse(AndThenAsStr(Get(payload, DateTimeKeys[i])))
         ELSE ProbeFirstPresentKey(payload, i + 1)

\* strategy 2: the loop over the keys, from key number i on
RECURSIVE ProbeDateTimeKeys(_, _)
ProbeDateTimeKeys(payload, i) ==
    IF i > Len(DateTimeKeys) THEN None
    ELSE LET candidate == AndThenAsStr(Get(payload, DateTimeKeys[i]))
             parsed == AndThenParse(candidate)
         IN  IF parsed.some THEN parsed ELSE ProbeDateTimeKeys(payload, i + 1)

\* the field read of lines 99-104
Field(payload, key) == AndThenValueToI64(Get(payload, key))

\* milliSeconds: .and_then(value_to_i64).unwrap_or(0)
MillisField(payload) ==
    LET m == Field(payload, "milliSeconds") IN IF m.some THEN m.v ELSE I64Zero

\* strategy 3: the structured component fields
ComponentFields(payload) ==
    LET year == Field(payload, "year")
        month == Field(payload, "month")
        day == Field(payload, "day")
        hour == Field(payload, "hour")
        minute == Field(payload, "minute")
        seconds == Field(payload, "seconds")
    IN  IF ~(year.some /\ month.some /\ day.some /\ hour.some /\ minute.some /\ seconds.some)
        THEN None
        ELSE
        LET year_i32 == I32TryFrom(year.v)
            month_u32 == U32TryFrom(month.v)
            day_u32 == U32TryFrom(day.v)
            hour_u32 == U32TryFrom(hour.v)
            minute_u32 == U32TryFrom(minute.v)
            second_u32 == U32TryFrom(seconds.v)
            millis_u32 == U32TryFrom(MillisField(payload))
        IN  IF ~(year_i32.some /\ month_u32.some /\ day_u32.some /\ hour_u32.some
                 /\ minute_u32.some /\ second_u32.some /\ millis_u32.some)
            THEN None
            ELSE
            LET date == from_ymd_opt(year_i32.v, month_u32.v, day_u32.v)
                time == from_hms_milli_opt(hour_u32.v, minute_u32.v, second_u32.v, millis_u32.v)
            IN  IF date.some /\ time.some
                THEN Some(timestamp_millis(date.v, time.v, 0))
                ELSE None

\* the strategies with the date-time keys tried before the unixTime field
extract_strings_first(payload, overflow_checks) ==
    IF ProbeDateTimeKeys(payload, 1).some
    THEN ProbeDateTimeKeys(payload, 1)
    ELSE IF UnixTimeField(payload).some
         THEN SecondsToMillis(UnixTimeField(payload).v, overflow_checks)
         ELSE ComponentFields(payload)

extract_epoch_millis(payload, overflow_checks) ==
    IF UnixTimeField(payload).some
    THEN SecondsToMillis(UnixTimeField(payload).v, overflow_checks)
    ELSE IF ProbeDateTimeKeys(payload, 1).some
         THEN ProbeDateTimeKeys(payload, 1)
         ELSE ComponentFields(payload)

(***************************************************************************)
(* Inputs of the model                                                     *)
(***************************************************************************)
\* the time_zone arguments a caller passes: none, or Some("Asia/Tokyo")
AsiaTokyo == <<"A", "s", "i", "a", "/", "T", "o", "k", "y", "o">>
TimeZoneArgs == {None, Some(AsiaTokyo)}

DT(y, mo, d, h, mi, s, ms, off) ==
    [y |-> y, mo |-> mo, d |-> d, h |-> h, mi |-> mi, s |-> s, ms |-> ms, off |-> off]

\* "2023-11-14T22:13:20.000Z", "2023-11-15T07:13:21.000+09:00",
\* "2023-11-14T22:13:22.500", "2023-11-14 22:13:23", "2023-13-14T22:13:20Z"
Rfc3339Utc == JDateStr("rfc3339", DT(2023, 11, 14, 22, 13, 20, 0, 0))
Rfc3339Tokyo == JDateStr("rfc3339", DT(2023, 11, 15, 7, 13, 21, 0, 540))
NaiveT == JDateStr("naiveT", DT(2023, 11, 14, 22, 13, 22, 500, 0))
NaiveSp == JDateStr("naiveSp", DT(2023, 11, 14, 22, 13, 23, 0, 0))
Rfc3339BadMonth == JDateStr("rfc3339", DT(2023, 13, 14, 22, 13, 20, 0, 0))

Keys == {"unixTime", "dateTime", "dateTimeUtc", "currentLocalTime", "currentUtcTime",
         "year", "month", "day", "hour", "minute", "seconds", "milliSeconds"}
EmptyPayload == [k \in Keys |-> Absent]

\* unixTime values: 1700000000, 0, -5, 1.5, -2.5, 42.4, " 42.6 ", "nan", "inf",
\* i64::MAX, i64::MIN, 33 * 2^48, 18446744073709551615, -1e300, true, null,
\* "not-a-date", {}
UnixTimeValues ==
    {Absent, JInt(1700000000), JInt(0), JInt(0 - 5), JFloat(F64Fin(15)), JFloat(F64Fin(0 - 25)),
     JFloat(F64Fin(424)), JNumStr(F64Fin(426), TRUE), JNumStr(F64NaN, FALSE),
     JNumStr(F64Big(1), FALSE), JI64(I64Max), JI64(I64Min), JI64(<<0, 0, 0, 33>>), JU64Big,
     JFloat(F64Big(0 - 1)), JBool(TRUE), JNull, JGarbage, JObject}

\* the payloads that vary the unixTime field and the four date-time keys, with the
\* component fields either absent or those of 2023-11-14 22:13:24
PriorityPayloads ==
    {[EmptyPayload EXCEPT !["unixTime"] = u, !["dateTime"] = a, !["dateTimeUtc"] = b,
                          !["currentLocalTime"] = c, !["currentUtcTime"] = d,
                          !["year"] = IF full THEN JInt(2023) ELSE Absent,
                          !["month"] = IF full THEN JInt(11) ELSE Absent,
                          !["day"] = IF full THEN JInt(14) ELSE Absent,
                          !["hour"] = IF full THEN JInt(22) ELSE Absent,
                          !["minute"] = IF full THEN JInt(13) ELSE Absent,
                          !["seconds"] = IF full THEN JInt(24) ELSE Absent] :
        u \in UnixTimeValues,
        a \in {Absent, JInt(5), JGarbage, Rfc3339BadMonth, NaiveT},
        b \in {Absent, JGarbage, Rfc3339Utc},
        c \in {Absent, JNull, NaiveSp},
        d \in {Absent, JGarbage, Rfc3339Tokyo},
        full \in BOOLEAN}

\* the payloads that vary the component fields, with nothing usable before them
ComponentPayloads ==
    {[EmptyPayload EXCEPT !["unixTime"] = before[1], !["dateTime"] = before[2],
                          !["year"] = y, !["month"] = mo, !["day"] = d, !["hour"] = h,
                          !["minute"] = mi, !["seconds"] = s, !["milliSeconds"] = ms] :
        before \in {<<Absent, Absent>>, <<JBool(FALSE), JGarbage>>},
        y \in {JInt(2023), JInt(2024), JInt(0 - 1), Absent, JI64(<<0, 32768, 0, 0>>)},
        mo \in {JInt(11), JInt(2), JInt(13), Absent, JGarbage},
        d \in {JInt(14), JInt(29), JInt(30), JInt(0)},
        h \in {JInt(22), JInt(24), Absent},
        mi \in {JInt(13), JInt(60)},
        s \in {JInt(20), JFloat(F64Fin(204)), JInt(59), JInt(60)},
        ms \in {Absent, JInt(0), JInt(999), JInt(1000), JInt(1500), JInt(0 - 1), JBool(TRUE),
                JGarbage}}

ExtractPayloads == PriorityPayloads \cup ComponentPayloads

\* the response bodies the remote service sends in the service model, and what
\* response.json() makes of them: a payload, or an error for a body that is no JSON
ScenarioA == "{\"unixTime\": 1700000000}"
ScenarioD == "{\"dateTime\": \"not-a-date\"}"
UnixTimeNaN == "{\"unixTime\": \"nan\"}"
UnixTimeMax == "{\"unixTime\": 9223372036854775807}"
NotJson == "<html>Bad Gateway</html>"
ResponseBodies == {ScenarioA, ScenarioD, UnixTimeNaN, UnixTimeMax, NotJson}

ResponseJson(body) ==
    CASE body = ScenarioA -> Some([EmptyPayload EXCEPT !["unixTime"] = JInt(1700000000)])
      [] body = ScenarioD -> Some([EmptyPayload EXCEPT !["dateTime"] = JGarbage])
      [] body = UnixTimeNaN -> Some([EmptyPayload EXCEPT !["unixTime"] = JNumStr(F64NaN, FALSE)])
      [] body = UnixTimeMax -> Some([EmptyPayload EXCEPT !["unixTime"] = JI64(I64Max)])
      [] OTHER -> None

StatusCodes == {200, 404}

(***************************************************************************)
(* Bounds of the model                                                     *)
(***************************************************************************)
\* concurrent invocations of the sync_time command
NumCalls == 2
\* ticks of the local clock
MaxClock == 1

Calls == 1..NumCalls

(***************************************************************************)
(* State                                                                   *)
(***************************************************************************)
VARIABLES
    overflow_checks,  \* the build: TRUE when integer overflow panics
    now,              \* the local clock, in ticks since the application started
    pc,               \* where each call stands
    time_zone,        \* the argument of each call
    sent,             \* the URLs of the requests each call has issued, in order
    response,         \* what each call has seen of the remote attempt
    fetched,          \* what fetch_remote_time returned to each call
    outcome,          \* what sync_time returned to its caller
    clock_reads,      \* the ticks at which each call read the local clock
    extract_runs,     \* how many times each call ran extract_epoch_millis
    payload,          \* pure-function check: the argument of extract_epoch_millis
    extracted         \* pure-function check: its outcome, once it has run

vars == <<overflow_checks, now, pc, time_zone, sent, response, fetched, outcome, clock_reads,
          extract_runs, payload, extracted>>

NotRun == [run |-> FALSE, out |-> None]

\* Result<TimeSyncResult, TimeSyncError> and Result<TimeSyncResult, String>
Ok(epoch_millis) == [ok |-> TRUE, epoch_millis |-> epoch_millis, err |-> ""]
Err(error) == [ok |-> FALSE, epoch_millis |-> I64Zero, err |-> error]
NoResult == [ok |-> FALSE, epoch_millis |-> I64Zero, err |-> "pending"]

NoResponse == [error |-> "", status |-> 0, body |-> ""]

\* Utc::now().timestamp_millis() at tick t: the application starts at
\* 2023-11-14T22:13:20.123Z and a tick is a millisecond
EpochAtStart == U64Add(I64WrappingMul(I64FromInt(1700000000), 1000), I64FromInt(123))
UtcNowMillis(t) == U64Add(EpochAtStart, I64FromInt(t))

\* urlencoding::encode: unreserved characters stand, the others become %XX
PercentEncoded == [ch \in {"/", " ", "+", ":"} |->
    CASE ch = "/" -> <<"%", "2", "F">>
      [] ch = " " -> <<"%", "2", "0">>
      [] ch = "+" -> <<"%", "2", "B">>
      [] OTHER -> <<"%", "3", "A">>]

RECURSIVE UrlEncode(_)
UrlEncode(text) ==
    IF text = <<>> THEN <<>>
    ELSE (IF Head(text) \in DOMAIN PercentEncoded THEN PercentEncoded[Head(text)] ELSE <<Head(text)>>)
         \o UrlEncode(Tail(text))

EtcUTC == <<"E", "t", "c", "/", "U", "T", "C">>

\* time_zone.unwrap_or_else(|| "Etc/UTC".to_string())
ZoneOf(tz) == IF tz.some THEN tz.v ELSE EtcUTC

RequestUrl(zone) == <<"https://timeapi.io/api/Time/current/zone?timeZone=">> \o UrlEncode(zone)

\* a status check that lets client errors through
IsSuccessBelow500(status) == 200 <= status /\ status <= 499

\* StatusCode::is_success
IsSuccess(status) == 200 <= status /\ status <= 299

\* the fallback value taken whatever the result
AlwaysLocalClock(result, t) == Ok(UtcNowMillis(t))

\* .or_else(|err| Ok(TimeSyncResult { epoch_millis: Utc::now().timestamp_millis() }))
OrElseLocalClock(result, t) == IF result.ok THEN result ELSE Ok(UtcNowMillis(t))

\* .map_err(|err: TimeSyncError| err.to_string())
MapErrToString(result) == IF result.ok THEN result ELSE Err("string")

\* the last result kept in one cell that every call reads
ReturnToAll(c, result) == [d \in Calls |-> Some(MapErrToString(result))]

\* the value sync_time hands to the caller of call c
Return(c, result) == [outcome EXCEPT ![c] = Some(MapErrToString(result))]

Init ==
    /\ overflow_checks \in BOOLEAN
    /\ now = 0
    /\ pc = [c \in Calls |-> "Idle"]
    /\ time_zone = [c \in Calls |-> None]
    /\ sent = [c \in Calls |-> <<>>]
    /\ response = [c \in Calls |-> NoResponse]
    /\ fetched = [c \in Calls |-> NoResult]
    /\ outcome = [c \in Calls |-> None]
    /\ clock_reads = [c \in Calls |-> <<>>]
    /\ extract_runs = [c \in Calls |-> 0]
    /\ payload = EmptyPayload
    /\ extracted = NotRun

\* the local clock advances
Tick ==
    /\ now < MaxClock
    /\ now' = now + 1
    /\ UNCHANGED <<overflow_checks, pc, time_zone, sent, response, fetched, outcome,
                   clock_reads, extract_runs, payload, extracted>>

\* sync_time is invoked: the zone is defaulted and encoded, the client is built and the
\* request is sent (lines 38-65, up to the first await)
Invoke(c, tz) ==
    /\ pc[c] = "Idle"
    /\ time_zone' = [time_zone EXCEPT ![c] = tz]
    /\ sent' = [sent EXCEPT ![c] = Append(@, RequestUrl(ZoneOf(tz)))]
    /\ pc' = [pc EXCEPT ![c] = "Pending"]
    /\ UNCHANGED <<overflow_checks, now, response, fetched, outcome, clock_reads,
                   extract_runs, payload, extracted>>

\* sync_time is invoked and reqwest::Client::builder().build() fails (line 60)
InvokeBuildFails(c, tz) ==
    /\ pc[c] = "Idle"
    /\ time_zone' = [time_zone EXCEPT ![c] = tz]
    /\ response' = [response EXCEPT ![c].error = "build"]
    /\ fetched' = [fetched EXCEPT ![c] = Err("Request")]
    /\ pc' = [pc EXCEPT ![c] = "Failed"]
    /\ UNCHANGED <<overflow_checks, now, sent, outcome, clock_reads, extract_runs,
                   payload, extracted>>

\* send() ends in an error: the connection fails, or the 5 second timeout fires (line 66)
SendFails(c, error) ==
    /\ pc[c] = "Pending"
    /\ response' = [response EXCEPT ![c].error = error]
    /\ fetched' = [fetched EXCEPT ![c] = Err("Request")]
    /\ pc' = [pc EXCEPT ![c] = "Failed"]
    /\ UNCHANGED <<overflow_checks, now, time_zone, sent, outcome, clock_reads,
                   extract_runs, payload, extracted>>

\* send() ends in a response: its status is checked (lines 68-73)
ReceiveStatus(c, status) ==
    /\ pc[c] = "Pending"
    /\ response' = [response EXCEPT ![c].status = status]
    /\ IF IsSuccess(status)
       THEN /\ pc' = [pc EXCEPT ![c] = "Body"]
            /\ UNCHANGED fetched
       ELSE /\ pc' = [pc EXCEPT ![c] = "Failed"]
            /\ fetched' = [fetched EXCEPT ![c] = Err("Request")]
    /\ UNCHANGED <<overflow_checks, now, time_zone, sent, outcome, clock_reads,
                   extract_runs, payload, extracted>>

\* the body arrives and response.json() decodes it (line 75): a body that is no JSON
\* makes fetch_remote_time return Err(Parse); on a payload extract_epoch_millis runs
\* (lines 76-78) and fetch_remote_time returns Ok, and so does sync_time, or it returns
\* Err(Parse), or the multiplication of line 83 panics
ReceiveBody(c, body) ==
    /\ pc[c] = "Body"
    /\ response' = [response EXCEPT ![c].body = body]
    /\ IF ~ResponseJson(body).some
       THEN /\ fetched' = [fetched EXCEPT ![c] = Err("Parse")]
            /\ pc' = [pc EXCEPT ![c] = "Failed"]
            /\ UNCHANGED <<outcome, clock_reads, extract_runs>>
       ELSE /\ extract_runs' = [extract_runs EXCEPT ![c] = @ + 1]
            /\ LET epoch_millis == extract_epoch_millis(ResponseJson(body).v, overflow_checks)
               IN  CASE IsPanic(epoch_millis) ->
                            /\ pc' = [pc EXCEPT ![c] = "Panicked"]
                            /\ UNCHANGED <<fetched, outcome, clock_reads>>
                     [] epoch_millis.some ->
                            /\ fetched' = [fetched EXCEPT ![c] = Ok(epoch_millis.v)]
                            /\ outcome' = Return(c, OrElseLocalClock(Ok(epoch_millis.v), now))
                            /\ pc' = [pc EXCEPT ![c] = "Resolved"]
                            /\ UNCHANGED clock_reads
                     [] OTHER ->
                            /\ fetched' = [fetched EXCEPT ![c] = Err("Parse")]
                            /\ pc' = [pc EXCEPT ![c] = "Failed"]
                            /\ UNCHANGED <<outcome, clock_reads>>
    /\ UNCHANGED <<overflow_checks, now, time_zone, sent, payload, extracted>>

\* the or_else closure of sync_time runs on the error of fetch_remote_time, reads the
\* local clock and returns (lines 41-47)
Fallback(c) ==
    /\ pc[c] = "Failed"
    /\ clock_reads' = [clock_reads EXCEPT ![c] = Append(@, now)]
    /\ outcome' = Return(c, OrElseLocalClock(fetched[c], now))
    /\ pc' = [pc EXCEPT ![c] = "Resolved"]
    /\ UNCHANGED <<overflow_checks, now, time_zone, sent, response, fetched,
                   extract_runs, payload, extracted>>

CallStep(c) ==
    \/ \E tz \in TimeZoneArgs : Invoke(c, tz) \/ InvokeBuildFails(c, tz)
    \/ \E error \in {"connect", "timeout"} : SendFails(c, error)
    \/ \E status \in StatusCodes : ReceiveStatus(c, status)
    \/ \E body \in ResponseBodies : ReceiveBody(c, body)
    \/ Fallback(c)

Next == Tick \/ \E c \in Calls : CallStep(c)

Spec == Init /\ [][Next]_vars

(***************************************************************************)
(* extract_epoch_millis as a pure function: the payload is drawn from      *)
(* ExtractPayloads, the build from both profiles, and the function is      *)
(* applied once.                                                           *)
(***************************************************************************)
InitExtract ==
    /\ overflow_checks \in BOOLEAN
    /\ now = 0
    /\ pc = [c \in Calls |-> "Idle"]
    /\ time_zone = [c \in Calls |-> None]
    /\ sent = [c \in Calls |-> <<>>]
    /\ response = [c \in Calls |-> NoResponse]
    /\ fetched = [c \in Calls |-> NoResult]
    /\ outcome = [c \in Calls |-> None]
    /\ clock_reads = [c \in Calls |-> <<>>]
    /\ extract_runs = [c \in Calls |-> 0]
    /\ payload \in ExtractPayloads
    /\ extracted = NotRun

Extract ==
    /\ ~extracted.run
    /\ extracted' = [run |-> TRUE, out |-> extract_epoch_millis(payload, overflow_checks)]
    /\ UNCHANGED <<overflow_checks, now, pc, time_zone, sent, response, fetched, outcome,
                   clock_reads, extract_runs, payload>>

NextExtract == Extract

SpecExtract == InitExtract /\ [][NextExtract]_vars

(***************************************************************************)
(* Properties of extract_epoch_millis (checked under SpecExtract)          *)
(***************************************************************************)
\* what ValueCoercion accepts: a number, or text that reads as a number
IsCoercible(value) ==
    value.t = "Number" \/ (value.t = "String" /\ value.shape = "numeric")

\* the keys of strategy 2, in the order the claims state
StatedKeyOrder == <<"dateTime", "dateTimeUtc", "currentLocalTime", "currentUtcTime">>

Accepted(value) == value.t = "String" /\ parse_iso_candidate(value).some

\* the result of strategy 2 as the claims state it: the parse of the first key, in
\* the stated order, whose value is a string that parse_iso_candidate accepts
FirstAcceptedKey(p) ==
    IF \E i \in 1..4 : Accepted(p[StatedKeyOrder[i]])
    THEN LET i == CHOOSE i \in 1..4 :
                      /\ Accepted(p[StatedKeyOrder[i]])
                      /\ \A j \in 1..(i - 1) : ~Accepted(p[StatedKeyOrder[j]])
         IN  parse_iso_candidate(p[StatedKeyOrder[i]])
    ELSE None

\* C3: the three strategies are applied in the order unixTime field, date-time keys,
\* component fields, and the outcome is that of the first one that yields a value: a
\* coercible unixTime decides the outcome whatever the other fields hold, a date-time
\* key that parses decides it when unixTime is absent or not coercible, the component
\* fields decide it otherwise, and the extraction yields nothing exactly when all three do.
C3_PriorityOrder ==
    extracted.run =>
        LET first == UnixTimeField(payload)
            second == FirstAcceptedKey(payload)
            third == ComponentFields(payload)
        IN  /\ first.some <=> IsCoercible(payload["unixTime"])
            /\ first.some => extracted.out = SecondsToMillis(first.v, overflow_checks)
            /\ ~first.some /\ second.some => extracted.out = second
            /\ ~first.some /\ ~second.some => extracted.out = third
            /\ extracted.out = None <=> (~first.some /\ ~second.some /\ ~third.some)

\* C3's case: unixTime is coercible, a date-time key parses and the component fields
\* are valid, all three to different instants, and the unixTime instant is returned
C3_Witness ==
    /\ extracted.run
    /\ payload["unixTime"] = JInt(1700000000)
    /\ ProbeDateTimeKeys(payload, 1).some
    /\ ComponentFields(payload).some
    /\ ProbeDateTimeKeys(payload, 1) # ComponentFields(payload)
    /\ extracted.out = Some(I64WrappingMul(I64FromInt(1700000000), 1000))
    /\ extracted.out # ProbeDateTimeKeys(payload, 1)
    /\ extracted.out # ComponentFields(payload)

OnlyNumericUnixTime(p) ==
    /\ p["unixTime"].t = "Number"
    /\ \A k \in Keys \ {"unixTime"} : p[k] = Absent

Abs(n) == IF n >= 0 THEN n ELSE 0 - n

\* the integer nearest to t tenths, a half going away from zero
NearestInteger(t) ==
    CHOOSE q \in (0 - 100)..100 :
        /\ Abs(10 * q - t) <= 5
        /\ Abs(10 * q - t) = 5 => 10 * Abs(q) > Abs(t)

\* the whole seconds of a numeric unixTime: itself when it is an i64, else the nearest
\* integer, held to the i64 range
WholeSeconds(number) ==
    CASE number.kind = "i64" -> number.i
      [] number.kind = "u64" -> I64Max
      [] number.f.cls = "fin" -> I64FromInt(NearestInteger(number.f.tenths))
      [] OTHER -> IF number.f.tenths > 0 THEN I64Max ELSE I64Min

\* C4 as stated: a payload holding only a numeric unixTime N yields exactly N * 1000,
\* for every N the payload can carry.
C4_ExactlyThousandfold ==
    extracted.run /\ OnlyNumericUnixTime(payload) =>
        LET n == payload["unixTime"]
        IN  /\ extracted.out.some
            /\ CASE n.kind = "i64" -> /\ ~I64MulOverflows(n.i, 1000)
                                      /\ extracted.out.v = I64WrappingMul(n.i, 1000)
                 [] n.kind = "f64" /\ n.f.cls = "fin" ->
                        extracted.out.v = I64FromInt(n.f.tenths * 100)
                 [] OTHER -> FALSE

\* C4, amended: a payload holding only a numeric unixTime N yields R * 1000, where R is N
\* itself when N is an integer of the i64 range and otherwise N rounded to the nearest
\* integer (halves away from zero) and held to the i64 range; when R * 1000 leaves the
\* i64 range the multiplication panics in a build with overflow checks and yields
\* R * 1000 modulo 2^64 in a build without.
C4_RoundedThousandfold ==
    extracted.run /\ OnlyNumericUnixTime(payload) =>
        LET r == WholeSeconds(payload["unixTime"])
        IN  IF I64MulOverflows(r, 1000) /\ overflow_checks
            THEN IsPanic(extracted.out)
            ELSE extracted.out = Some(I64WrappingMul(r, 1000))

\* C4's case: {"unixTime": 1.5} has been extracted, to 2000
C4_Witness ==
    /\ extracted.run
    /\ OnlyNumericUnixTime(payload)
    /\ payload["unixTime"] = JFloat(F64Fin(15))
    /\ extracted.out = Some(I64FromInt(2000))

ComponentKeys == {"year", "month", "day", "hour", "minute", "seconds"}

\* the integer a component field coerces to, or -1 when it is none of the i32 range
CoercedInt(p, key) ==
    IF Field(p, key).some /\ I32TryFrom(Field(p, key).v).some
    THEN I32TryFrom(Field(p, key).v).v
    ELSE 0 - 1

\* a component payload the claim C5 calls defective
C5_Defective(p) ==
    \/ \E k \in ComponentKeys : ~Field(p, k).some
    \/ p["milliSeconds"] # Absent /\ ~Field(p, "milliSeconds").some
    \/ \E k \in ComponentKeys : CoercedInt(p, k) < 0
    \/ CoercedInt(p, "month") \notin 1..12
    \/ CoercedInt(p, "day") \notin 1..DaysInMonth(CoercedInt(p, "year"), CoercedInt(p, "month"))
    \/ CoercedInt(p, "hour") \notin 0..23
    \/ CoercedInt(p, "minute") \notin 0..59
    \/ CoercedInt(p, "seconds") \notin 0..59
    \/ p["milliSeconds"] # Absent /\ CoercedInt(p, "milliSeconds") \notin 0..999

\* C5 as stated: when strategies 1 and 2 yield nothing, the component strategy yields
\* nothing whenever one of year, month, day, hour, minute, seconds is missing or not
\* coercible, milliSeconds is present but not coercible, or a field is out of range
\* (negative values included).
C5_DefectiveComponentsFail ==
    (/\ extracted.run
     /\ ~UnixTimeField(payload).some
     /\ ~ProbeDateTimeKeys(payload, 1).some
     /\ C5_Defective(payload)) => extracted.out = None

\* C9: strategy 2 probes dateTime, dateTimeUtc, currentLocalTime, currentUtcTime in that
\* order and yields the parse of the first key whose value is a string that
\* parse_iso_candidate accepts; a key that is absent, no string or unparseable does not
\* block a later one; and that parse is what the extraction returns when unixTime
\* yields nothing.
C9_FirstParsingKeyWins ==
    extracted.run =>
        /\ ProbeDateTimeKeys(payload, 1) = FirstAcceptedKey(payload)
        /\ ~UnixTimeField(payload).some /\ FirstAcceptedKey(payload).some
              => extracted.out = FirstAcceptedKey(payload)

\* C9's case: dateTime holds an unparseable string, dateTimeUtc and currentUtcTime both
\* parse, to different instants, and the instant of dateTimeUtc is returned
C9_Witness ==
    /\ extracted.run
    /\ ~UnixTimeField(payload).some
    /\ payload["dateTime"] = Rfc3339BadMonth
    /\ payload["dateTimeUtc"] = Rfc3339Utc
    /\ payload["currentUtcTime"] = Rfc3339Tokyo
    /\ parse_iso_candidate(Rfc3339Utc) # parse_iso_candidate(Rfc3339Tokyo)
    /\ extracted.out = Some(I64WrappingMul(I64FromInt(1700000000), 1000))

(***************************************************************************)
(* Properties of sync_time (checked under Spec)                            *)
(***************************************************************************)
\* the bodies that decode as JSON, and what extract_epoch_millis makes of the payload of
\* each body in each build (of a body not yet read, or no JSON: nothing)
JsonBodies == {body \in ResponseBodies : ResponseJson(body).some}
ExtractionOf ==
    [checks \in BOOLEAN |-> [body \in ResponseBodies \cup {""} |->
        IF ResponseJson(body).some
        THEN extract_epoch_millis(ResponseJson(body).v, checks)
        ELSE None]]

\* a remote attempt that went through: no request error, a status in the success
\* range, a body that decoded as JSON and a payload with an instant in it
SucceededWith(resp, checks) ==
    /\ resp.error = ""
    /\ resp.status \in 200..299
    /\ resp.body \in JsonBodies
    /\ ExtractionOf[checks][resp.body].some

RemoteSucceeded(c) == SucceededWith(response[c], overflow_checks)

\* all that the model holds of call c
CallState(c) ==
    <<pc[c], time_zone[c], sent[c], response[c], fetched[c], outcome[c], clock_reads[c],
      extract_runs[c]>>

\* C1 as stated: every call of sync_time ends with a successful outcome carrying an
\* epoch-millisecond value, whatever the remote attempt came to: no call ends in an
\* error or without an outcome.
C1_AlwaysSucceeds ==
    \A c \in Calls :
        \/ pc[c] \in {"Idle", "Pending", "Body", "Failed"}
        \/ pc[c] = "Resolved" /\ outcome[c].some /\ outcome[c].v.ok

\* what holds of every call in every state
C2_StateInvariant ==
    \A c \in Calls :
        /\ extract_runs[c] <= 1
        /\ extract_runs[c] = 1 =>
              /\ response[c].error = ""
              /\ response[c].status \in 200..299
              /\ response[c].body \in JsonBodies
        /\ clock_reads[c] # <<>> => pc[c] = "Resolved" /\ ~RemoteSucceeded(c)
        /\ pc[c] = "Resolved" =>
              /\ outcome[c].some
              /\ IF RemoteSucceeded(c)
                 THEN /\ outcome[c].v = Ok(ExtractionOf[overflow_checks][response[c].body].v)
                      /\ clock_reads[c] = <<>>
                 ELSE /\ Len(clock_reads[c]) = 1
                      /\ outcome[c].v = Ok(UtcNowMillis(clock_reads[c][1]))

\* what holds of the step from Failed to Resolved
C2_FallbackStep ==
    \A c \in Calls :
        pc[c] = "Failed" /\ pc'[c] = "Resolved" =>
            /\ clock_reads'[c] = <<now>>
            /\ outcome'[c] = Some(Ok(UtcNowMillis(now)))

\* C2: a resolved call returns the instant extract_epoch_millis gives for the response
\* payload exactly when the request completed, the status was in the success range, the
\* body decoded and the extraction succeeded, and then the local clock was never read;
\* in every other case it returns the local clock as read once, in the step that follows
\* the failure; and the extractor runs at most once, and only on a decoded body of a
\* response with a success status.
C2_RemoteIffSucceeded == []C2_StateInvariant /\ [][C2_FallbackStep]_vars

\* C2's case: one call has resolved to the instant of its payload and another, whose
\* request timed out, to the local clock read a tick later
C2_Witness ==
    \E c, d \in Calls :
        /\ pc[c] = "Resolved" /\ RemoteSucceeded(c)
        /\ outcome[c] = Some(Ok(I64WrappingMul(I64FromInt(1700000000), 1000)))
        /\ pc[d] = "Resolved" /\ response[d].error = "timeout"
        /\ clock_reads[d] = <<1>>
        /\ outcome[d] = Some(Ok(UtcNowMillis(1)))

\* C6 as stated: the instant handed to the caller is a complete instant of the remote
\* payload or the local clock reading, never a zero value and never built from a field
\* that was defaulted or coerced from garbage.
C6_NeverZeroNeverPartial ==
    \A c \in Calls :
        pc[c] = "Resolved" =>
            /\ outcome[c].v.epoch_millis # I64Zero
            /\ RemoteSucceeded(c) =>
                  LET u == ResponseJson(response[c].body).v["unixTime"]
                  IN  IsCoercible(u) => (u.t = "Number" \/ u.f.cls = "fin")

\* C7 as stated: two resolutions of the same zone whose responses carry the same payload
\* yield the same instant, for every payload.
C7_SamePayloadSameInstant ==
    \A c, d \in Calls :
        (/\ pc[c] = "Resolved" /\ pc[d] = "Resolved"
         /\ ZoneOf(time_zone[c]) = ZoneOf(time_zone[d])
         /\ response[c].body \in JsonBodies
         /\ response[c].body = response[d].body) => outcome[c] = outcome[d]

\* C7, amended: two resolutions of the same zone whose responses carry the same payload
\* yield the same instant whenever the extraction of that payload succeeds; when it
\* fails each call yields its own reading of the local clock, which depends on when the
\* call is made.
C7_SameExtractedInstant ==
    \A c, d \in Calls :
        (/\ pc[c] = "Resolved" /\ pc[d] = "Resolved"
         /\ ZoneOf(time_zone[c]) = ZoneOf(time_zone[d])
         /\ response[c].body \in JsonBodies
         /\ response[c].body = response[d].body)
        => /\ RemoteSucceeded(c) => outcome[c] = outcome[d]
           /\ ~RemoteSucceeded(c) =>
                 /\ outcome[c] = Some(Ok(UtcNowMillis(clock_reads[c][1])))
                 /\ outcome[d] = Some(Ok(UtcNowMillis(clock_reads[d][1])))

\* C7's case: two calls for the same zone have resolved the same payload, the second
\* after the clock has advanced, to the same instant
C7_Witness ==
    /\ now = MaxClock
    /\ \E c, d \in Calls :
        /\ c # d
        /\ pc[c] = "Resolved" /\ pc[d] = "Resolved"
        /\ time_zone[c] = Some(AsiaTokyo) /\ time_zone[d] = Some(AsiaTokyo)
        /\ response[c].body = ScenarioA /\ response[d].body = ScenarioA
        /\ outcome[c] = Some(Ok(I64WrappingMul(I64FromInt(1700000000), 1000)))
        /\ outcome[d] = outcome[c]

\* C8 as stated: a call issues exactly one request, with no retry after a failure, and
\* every call that has started reaches Resolved: a started call that is not resolved
\* can always take its next step.
C8_OneAttemptThenResolved ==
    \A c \in Calls :
        /\ Len(sent[c]) <= 1
        /\ pc[c] \in {"Pending", "Body"} => Len(sent[c]) = 1
        /\ pc[c] \notin {"Idle", "Resolved"} => ENABLED CallStep(c)

\* what holds of every step
C10_Step ==
    LET changed == {c \in Calls : CallState(c)' # CallState(c)}
    IN  /\ Cardinality(changed) <= 1
        /\ \A c \in changed :
              /\ pc[c] # "Resolved"
              /\ pc'[c] # "Resolved" => outcome'[c] = None
              /\ pc'[c] = "Resolved" =>
                    outcome'[c] = Some(Ok(IF SucceededWith(response'[c], overflow_checks)
                                          THEN ExtractionOf[overflow_checks][response'[c].body].v
                                          ELSE UtcNowMillis(now)))

\* C10: the calls are independent.  A step changes the state of one call at most; what
\* a call returns is decided by its own response and its own reading of the local
\* clock; and what a call has returned is never changed afterwards, whatever the other
\* calls do.
C10_CallsIndependent == [][C10_Step]_vars

\* C10's case: one call has fallen back to the local clock after a timeout while the
\* other, in flight at the same time, has resolved to the instant of its payload
C10_Witness ==
    \E c, d \in Calls :
        /\ c # d
        /\ pc[c] = "Resolved" /\ response[c].error = "timeout"
        /\ outcome[c] = Some(Ok(UtcNowMillis(clock_reads[c][1])))
        /\ pc[d] = "Resolved" /\ RemoteSucceeded(d)
        /\ outcome[d] = Some(Ok(I64WrappingMul(I64FromInt(1700000000), 1000)))

====
